---- MODULE Spec2Model ----
(***************************************************************************)
(* Model of compress_pdf.PDFCompressor: the directory mapper               *)
(* (generate_source_dict, generate_output_dict, generate_dict_metrics) and *)
(* the batch invoker (run_external_pkg_command,                            *)
(* iterate_directories_external_pkg_command, run_job) over a filesystem.   *)
(*                                                                         *)
(* Strings are sequences of one-character strings, so that str.replace,    *)
(* the "in" operator, glob's pattern and os.path.join/split are computed   *)
(* character by character as Python computes them.                          *)
(***************************************************************************)
EXTENDS Integers, Sequences, FiniteSets, TLC

\* ------------------------------------------------------------------ bounds
\* how many directories other processes may create during a behaviour
MaxEnvMkdir == 1

\* --------------------------------------------------------------- constants
\* module-level default extension_type (".pdf")
extension_type == <<".", "p", "d", "f">>
\* st_size the filesystem reports for a directory
DirSize == 4

\* ------------------------------------------------------------ path strings
A == <<"a">>
B == <<"b">>
Q == <<"q">>
Slash == <<"/">>

\* os.path.join(a, b) for two components
join(a, b) ==
    IF Len(b) > 0 /\ b[1] = "/" THEN b
    ELSE IF Len(a) = 0 \/ a[Len(a)] = "/" THEN a \o b
    ELSE a \o Slash \o b

\* index of the last "/" in p[1..i], 0 when there is none (str.rfind + 1)
RECURSIVE rfind_slash(_, _)
rfind_slash(p, i) ==
    IF i = 0 THEN 0 ELSE IF p[i] = "/" THEN i ELSE rfind_slash(p, i - 1)
LastSlash(p) == rfind_slash(p, Len(p))

\* os.path.split(p)[1]
split_tail(p) == SubSeq(p, LastSlash(p) + 1, Len(p))

\* the directory that holds p; <<>> is the working directory
dirname(p) == IF LastSlash(p) <= 1 THEN SubSeq(p, 1, LastSlash(p))
              ELSE SubSeq(p, 1, LastSlash(p) - 1)

\* str.startswith / str.endswith / "t in s"
StartsWith(s, t) == Len(t) <= Len(s) /\ SubSeq(s, 1, Len(t)) = t
EndsWith(s, t) == Len(t) <= Len(s) /\ SubSeq(s, Len(s) - Len(t) + 1, Len(s)) = t
Contains(s, t) == \E i \in 0..(Len(s) - Len(t)) : SubSeq(s, i + 1, i + Len(t)) = t

\* str.replace(old, new): every non-overlapping occurrence, left to right
RECURSIVE str_replace(_, _, _)
str_replace(s, old, new) ==
    IF Len(s) < Len(old) \/ Len(old) = 0 THEN s
    ELSE IF StartsWith(s, old)
         THEN new \o str_replace(SubSeq(s, Len(old) + 1, Len(s)), old, new)
         ELSE <<s[1]>> \o str_replace(Tail(s), old, new)

\* -------------------------------------------------------------- filesystem
\* The filesystem is the sequence of its entries in directory-listing order;
\* an entry is [path, dir, name, kind, size]: name inside directory dir, with
\* kind "d" (directory) or "f" (file).
Dir(p) == [path |-> p, dir |-> dirname(p), name |-> split_tail(p),
           kind |-> "d", size |-> DirSize]
File(p, n) == [path |-> p, dir |-> dirname(p), name |-> split_tail(p),
               kind |-> "f", size |-> n]

Exists(f, p) == p = <<>> \/ \E i \in 1..Len(f) : f[i].path = p
isdir(f, p) == p = <<>> \/ \E i \in 1..Len(f) : f[i].path = p /\ f[i].kind = "d"
st_size(f, p) == (CHOOSE e \in {f[i] : i \in 1..Len(f)} : e.path = p).size

\* os.scandir(d): the entries directly inside d, in listing order
scandir(f, d) == SelectSeq(f, LAMBDA e : e.dir = d)

Names(es) == [i \in 1..Len(es) |-> es[i].name]

RECURSIVE Flatten(_)
Flatten(ss) == IF ss = <<>> THEN <<>> ELSE Head(ss) \o Flatten(Tail(ss))

SeqToSet(s) == {s[i] : i \in 1..Len(s)}
RECURSIVE SumSeq(_)
SumSeq(s) == IF s = <<>> THEN 0 ELSE Head(s) + SumSeq(Tail(s))

\* ------------------------------------------------------- directory mapping
\* os.walk(top), top-down: one [dir, files] per visited directory, the
\* sub-directories descended in listing order; files are the non-directories
RECURSIVE walk(_, _)
RECURSIVE walk_each(_, _, _)
walk(f, top) ==
    IF ~isdir(f, top) \/ top = <<>> THEN <<>>
    ELSE LET es == scandir(f, top)
             dirs == Names(SelectSeq(es, LAMBDA e : e.kind = "d"))
             nondirs == Names(SelectSeq(es, LAMBDA e : e.kind = "f"))
         IN  <<[dir |-> top, files |-> nondirs]>> \o walk_each(f, top, dirs)
walk_each(f, top, dirs) ==
    IF dirs = <<>> THEN <<>>
    ELSE walk(f, join(top, Head(dirs))) \o walk_each(f, top, Tail(dirs))

\* glob as it would be if "*" also matched names that begin with "."
glob_hidden(f, dir, ext) ==
    IF ~isdir(f, dir) THEN <<>>
    ELSE LET names == Names(scandir(f, dir))
             hits == SelectSeq(names, LAMBDA n : EndsWith(n, ext))
         IN  [i \in 1..Len(hits) |-> join(dir, hits[i])]

\* glob.glob("{dir}/*{ext}"): the entries of dir (files and directories)
\* whose name ends with ext and does not begin with ".", as joined paths
glob(f, dir, ext) ==
    IF ~isdir(f, dir) THEN <<>>
    ELSE LET names == Names(scandir(f, dir))
             shown == SelectSeq(names, LAMBDA n : n[1] # ".")
             hits == SelectSeq(shown, LAMBDA n : EndsWith(n, ext))
         IN  [i \in 1..Len(hits) |-> join(dir, hits[i])]

\* [os.path.split(filename)[1] for filename in file_list if ext in filename]
match_files(file_list, ext) ==
    LET kept == SelectSeq(file_list, LAMBDA fn : Contains(fn, ext))
    IN  [i \in 1..Len(kept) |-> split_tail(kept[i])]

\* a dict is the sequence of its [key, val] entries in insertion order;
\* d[k] = v keeps the position of an existing key and replaces its value
DictPut(d, k, v) ==
    IF \E i \in 1..Len(d) : d[i].key = k
    THEN [i \in 1..Len(d) |-> IF d[i].key = k THEN [key |-> k, val |-> v] ELSE d[i]]
    ELSE Append(d, [key |-> k, val |-> v])
RECURSIVE DictFrom(_, _)
DictFrom(pairs, acc) ==
    IF pairs = <<>> THEN acc
    ELSE DictFrom(Tail(pairs), DictPut(acc, Head(pairs).key, Head(pairs).val))
keys(d) == [i \in 1..Len(d) |-> d[i].key]

\* the value of a fresh directory entry: {"files": [...]}; count and d_bytes
\* are -1 and f_bytes is empty while the metrics keys are absent
NewItem(files) == [files |-> files, count |-> -1, f_bytes |-> <<>>, d_bytes |-> -1]

\* generate_source_dict as it would be if it kept no directory without a
\* matching file
source_pairs_pruned(f, src, rec, ext) ==
    IF rec
    THEN LET dir_walk == SelectSeq(walk(f, src),
                                   LAMBDA x : match_files(x.files, ext) # <<>>)
         IN  DictFrom([i \in 1..Len(dir_walk) |->
                         [key |-> dir_walk[i].dir,
                          val |-> NewItem(match_files(dir_walk[i].files, ext))]], <<>>)
    ELSE LET file_list == glob(f, src, ext)
         IN  <<[key |-> src, val |-> NewItem(match_files(file_list, ext))]>>

\* generate_source_dict: the [key, item] pairs of the new source_dict
source_pairs(f, src, rec, ext) ==
    IF rec
    THEN LET dir_walk == walk(f, src)
         IN  DictFrom([i \in 1..Len(dir_walk) |->
                         [key |-> dir_walk[i].dir,
                          val |-> NewItem(match_files(dir_walk[i].files, ext))]], <<>>)
    ELSE LET file_list == glob(f, src, ext)
         IN  <<[key |-> src, val |-> NewItem(match_files(file_list, ext))]>>

\* generate_output_dict: every key rewritten by key.replace(source_dir,
\* output_dir), the value being the very item of the source entry
output_pairs(sd, src, out) ==
    DictFrom([i \in 1..Len(sd) |->
                [key |-> str_replace(sd[i].key, src, out), val |-> sd[i].val]], <<>>)

\* ------------------------------------------------------------------- state
VARIABLES
    fs,            \* the filesystem
    constructed,   \* a PDFCompressor object exists
    source_dir, output_dir, recursive,   \* its attributes
    has_source, source_dict,   \* source_dict: entries [key, val], val a heap reference
    has_output, output_dict,   \* output_dict: likewise; shares items with source_dict
    heap,          \* the item objects: heap[bank][idx]
    pc,            \* "idle", or the position inside the batch: "mkdir", "run"
    pairs, pairIdx, fileIdx,   \* the zip being iterated and the loop indices
    trace,         \* what the current batch did: mkdir and subprocess.run events
    lastOp,        \* the call that left (or is leaving) this state, and its result
    nEnv           \* directories created by other processes so far

vars == <<fs, constructed, source_dir, output_dir, recursive, has_source,
          source_dict, has_output, output_dict, heap, pc, pairs, pairIdx,
          fileIdx, trace, lastOp, nEnv>>
objVars == <<constructed, source_dir, output_dir, recursive>>
dictVars == <<has_source, source_dict, has_output, output_dict, heap>>
loopVars == <<pairs, pairIdx, fileIdx>>

Item(ref) == heap[ref.bank][ref.idx]

\* ----------------------------------------------------------- initial trees
RPdf == join(A, <<"r">> \o extension_type)
OPdfOld == join(A, <<"o">> \o extension_type \o <<"o", "l", "d">>)
HPdf == join(A, <<".", "h">> \o extension_type)
DPdf == join(A, <<"d">> \o extension_type)
AA == join(A, A)
AB == join(A, B)
ABS == join(AB, <<"s">> \o extension_type)
AAT == join(AA, <<"t", ".", "t", "x", "t">>)
AAB == join(AA, B)
\* an output root inside the source tree
AO == join(A, <<"o">>)

\* optional groups of entries below the source root "a"
OddNames == <<File(OPdfOld, 2), File(HPdf, 1), Dir(DPdf)>>
SubA == <<Dir(AA), File(AAT, 7)>>
SubADeep == <<Dir(AAB)>>
SubB == <<Dir(AB)>>
SubBFile == <<File(ABS, 5)>>

Reverse(s) == [i \in 1..Len(s) |-> s[Len(s) + 1 - i]]

\* the tree below "a" for a choice of groups, in listing order or reversed
Tree(odd, sa, sb, rev) ==
    LET body == <<File(RPdf, 3)>> \o (IF odd THEN OddNames ELSE <<>>)
                  \o (IF sa > 0 THEN SubA ELSE <<>>)
                  \o (IF sa > 1 THEN SubADeep ELSE <<>>)
                  \o (IF sb > 0 THEN SubB ELSE <<>>)
                  \o (IF sb > 1 THEN SubBFile ELSE <<>>)
    IN  <<Dir(A)>> \o (IF rev THEN Reverse(body) ELSE body)

InitTrees ==
    {Tree(odd, sa, sb, rev) : odd \in BOOLEAN, sa \in 0..2, sb \in 0..2,
                              rev \in BOOLEAN}
\* the trees the batch is run on
BatchTrees ==
    {Tree(FALSE, sa, sb, rev) : sa \in 0..1, sb \in {0, 2}, rev \in BOOLEAN}

\* arguments a caller may pass
SourceArgs == {A, Q}
OutputArgs == {B, A, RPdf}
\* directories other processes may create
EnvDirs == {B, join(B, B)}

\* exit statuses of the external tool
ExitCodes == {0, 1}

NoOp == [op |-> "none", result |-> "ok", arg |-> <<>>]

InitWith(trees) ==
    /\ fs \in trees
    /\ constructed = FALSE
    /\ source_dir = <<>> /\ output_dir = <<>> /\ recursive = FALSE
    /\ has_source = FALSE /\ source_dict = <<>>
    /\ has_output = FALSE /\ output_dict = <<>>
    /\ heap = <<<<>>, <<>>>>
    /\ pc = "idle"
    /\ pairs = <<>> /\ pairIdx = 0 /\ fileIdx = 0
    /\ trace = <<>>
    /\ lastOp = NoOp
    /\ nEnv = 0

\* ------------------------------------------------------------ construction
\* __init__ as it would be if it examined the directories before the package
init_result_dirs_first(f, pkg, src, out) ==
    IF ~isdir(f, src) THEN "InvalidSource"
    ELSE IF isdir(f, out) THEN "OutputExists"
    ELSE IF ~pkg THEN "SystemError"
    ELSE "ok"

\* __init__ as it would be without check_output_dir
init_result_any_output(f, pkg, src, out) ==
    IF ~pkg THEN "SystemError"
    ELSE IF ~isdir(f, src) THEN "InvalidSource"
    ELSE "ok"

\* check_pkg_installed, check_source_dir, check_output_dir in __init__ order
init_result(f, pkg, src, out) ==
    IF ~pkg THEN "SystemError"
    ELSE IF ~isdir(f, src) THEN "InvalidSource"
    ELSE IF isdir(f, out) THEN "OutputExists"
    ELSE "ok"

\* PDFCompressor(source_dir=src, output_dir=out, recursive=rec); pkg is the
\* answer of "dpkg -s ghostscript".  A failed construction leaves the caller
\* with the object it had.
Construct(pkg, src, out, rec) ==
    /\ pc = "idle" /\ ~constructed
    /\ lastOp' = [op |-> "__init__", result |-> init_result(fs, pkg, src, out), arg |-> out]
    /\ IF init_result(fs, pkg, src, out) = "ok"
       THEN /\ constructed' = TRUE
            /\ source_dir' = src /\ output_dir' = out /\ recursive' = rec
            /\ has_source' = FALSE /\ source_dict' = <<>>
            /\ has_output' = FALSE /\ output_dict' = <<>>
            /\ heap' = <<<<>>, <<>>>>
       ELSE UNCHANGED <<objVars, dictVars>>
    /\ UNCHANGED <<fs, pc, loopVars, trace, nEnv>>

\* ------------------------------------------------------------ map building
\* the bank the new source items go to: one output_dict does not refer to
FreeBank == IF has_output /\ output_dict # <<>> /\ output_dict[1].val.bank = 1
            THEN 2 ELSE 1

GenerateSourceDict ==
    /\ pc = "idle" /\ constructed
    /\ LET sp == source_pairs(fs, source_dir, recursive, extension_type)
           b == FreeBank
       IN  /\ heap' = [heap EXCEPT ![b] = [i \in 1..Len(sp) |-> sp[i].val]]
           /\ source_dict' = [i \in 1..Len(sp) |->
                                [key |-> sp[i].key, val |-> [bank |-> b, idx |-> i]]]
    /\ has_source' = TRUE
    /\ lastOp' = [op |-> "generate_source_dict", result |-> "ok", arg |-> <<>>]
    /\ UNCHANGED <<fs, objVars, has_output, output_dict, pc, loopVars, trace, nEnv>>

GenerateOutputDict ==
    /\ pc = "idle" /\ constructed /\ has_source
    /\ output_dict' = output_pairs(source_dict, source_dir, output_dir)
    /\ has_output' = TRUE
    /\ heap' = [b \in 1..2 |-> IF source_dict # <<>> /\ b = source_dict[1].val.bank
                               THEN heap[b] ELSE <<>>]
    /\ lastOp' = [op |-> "generate_output_dict", result |-> "ok", arg |-> <<>>]
    /\ UNCHANGED <<fs, objVars, has_source, source_dict, pc, loopVars, trace, nEnv>>

\* ----------------------------------------------------------------- metrics
\* generate_dict_metrics as it would be if d_bytes summed the f_bytes the
\* entry had before the call
RECURSIVE metrics_loop_stale(_, _, _, _)
metrics_loop_stale(d, i, h, f) ==
    IF i > Len(d) THEN [heap |-> h, result |-> "ok"]
    ELSE LET ref == d[i].val
             files == h[ref.bank][ref.idx].files
             paths == [j \in 1..Len(files) |-> join(d[i].key, files[j])]
             h1 == [h EXCEPT ![ref.bank][ref.idx].count = Len(files)]
             sizes == [j \in 1..Len(paths) |-> st_size(f, paths[j])]
         IN  IF \E j \in 1..Len(paths) : ~Exists(f, paths[j])
             THEN [heap |-> h1, result |-> "FileNotFound"]
             ELSE metrics_loop_stale(d, i + 1,
                     [h1 EXCEPT ![ref.bank][ref.idx].f_bytes = sizes,
                                ![ref.bank][ref.idx].d_bytes =
                                    SumSeq(h[ref.bank][ref.idx].f_bytes)],
                     f)

\* the loop of generate_dict_metrics over the entries i.. of dict d on heap h:
\* count, then f_bytes (os.stat of every file, which raises when one is
\* missing and leaves the loop), then d_bytes
RECURSIVE metrics_loop(_, _, _, _)
metrics_loop(d, i, h, f) ==
    IF i > Len(d) THEN [heap |-> h, result |-> "ok"]
    ELSE LET ref == d[i].val
             files == h[ref.bank][ref.idx].files
             paths == [j \in 1..Len(files) |-> join(d[i].key, files[j])]
             h1 == [h EXCEPT ![ref.bank][ref.idx].count = Len(files)]
             sizes == [j \in 1..Len(paths) |-> st_size(f, paths[j])]
         IN  IF \E j \in 1..Len(paths) : ~Exists(f, paths[j])
             THEN [heap |-> h1, result |-> "FileNotFound"]
             ELSE metrics_loop(d, i + 1,
                               [h1 EXCEPT ![ref.bank][ref.idx].f_bytes = sizes,
                                          ![ref.bank][ref.idx].d_bytes = SumSeq(sizes)],
                               f)

GenerateDictMetrics(source) ==
    /\ pc = "idle" /\ constructed
    /\ IF source THEN has_source ELSE has_output
    /\ LET r == metrics_loop(IF source THEN source_dict ELSE output_dict, 1, heap, fs)
       IN  /\ heap' = r.heap
           /\ lastOp' = [op |-> "generate_dict_metrics", result |-> r.result,
                         arg |-> IF source THEN <<"source">> ELSE <<"output">>]
    /\ UNCHANGED <<fs, objVars, has_source, source_dict, has_output, output_dict,
                   pc, loopVars, trace, nEnv>>

\* ------------------------------------------------------------------- batch
\* zip(source_dict.keys(), output_dict.keys()): as long as the shorter one
zip(ks, ko) ==
    [i \in 1..(IF Len(ks) < Len(ko) THEN Len(ks) ELSE Len(ko)) |->
        [src |-> ks[i], out |-> ko[i]]]

\* self.source_dict[source_dirname]["files"] on dict sd and heap h
file_list(sd, h, k) ==
    LET e == CHOOSE x \in SeqToSet(sd) : x.key = k
    IN  h[e.val.bank][e.val.idx].files

\* entering the loop of iterate_directories_external_pkg_command over zs
StartBatch(zs, op) ==
    /\ pairs' = zs
    /\ trace' = <<>>
    /\ fileIdx' = 0
    /\ IF zs = <<>>
       THEN /\ pc' = "idle" /\ pairIdx' = 0
            /\ lastOp' = [op |-> op, result |-> "ok", arg |-> <<>>]
       ELSE /\ pc' = "mkdir" /\ pairIdx' = 1
            /\ lastOp' = [op |-> op, result |-> "running", arg |-> <<>>]

IterateDirectories ==
    /\ pc = "idle" /\ constructed /\ has_source /\ has_output
    /\ StartBatch(zip(keys(source_dict), keys(output_dict)), "iterate")
    /\ UNCHANGED <<fs, objVars, dictVars, nEnv>>

\* run_job: generate_source_dict, generate_output_dict, then the batch
RunJob ==
    /\ pc = "idle" /\ constructed
    /\ LET sp == source_pairs(fs, source_dir, recursive, extension_type)
           b == FreeBank
           sd == [i \in 1..Len(sp) |-> [key |-> sp[i].key, val |-> [bank |-> b, idx |-> i]]]
           od == output_pairs(sd, source_dir, output_dir)
       IN  /\ heap' = [c \in 1..2 |-> IF c = b THEN [i \in 1..Len(sp) |-> sp[i].val]
                                      ELSE <<>>]
           /\ source_dict' = sd /\ has_source' = TRUE
           /\ output_dict' = od /\ has_output' = TRUE
           /\ StartBatch(zip(keys(sd), keys(od)), "run_job")
    /\ UNCHANGED <<fs, objVars, nEnv>>

\* the loop position after file fi of pair pi, whose entry has n files
Advance(pi, fi, n) ==
    IF fi < n THEN /\ pc' = "run" /\ pairIdx' = pi /\ fileIdx' = fi + 1
                   /\ lastOp' = lastOp /\ pairs' = pairs
    ELSE IF pi < Len(pairs)
         THEN /\ pc' = "mkdir" /\ pairIdx' = pi + 1 /\ fileIdx' = 0
              /\ lastOp' = lastOp /\ pairs' = pairs
         ELSE /\ pc' = "idle" /\ pairIdx' = 0 /\ fileIdx' = 0 /\ pairs' = <<>>
              /\ lastOp' = [lastOp EXCEPT !.result = "ok"]

Fail(err, arg) ==
    /\ pc' = "idle"
    /\ lastOp' = [lastOp EXCEPT !.result = err, !.arg = arg]
    /\ pairIdx' = 0 /\ fileIdx' = 0 /\ pairs' = <<>>

\* os.mkdir(p) on filesystem f: the error it raises, or "ok"
mkdir_result(f, p) ==
    IF Exists(f, p) THEN "FileExists"
    ELSE IF ~isdir(f, dirname(p)) THEN "FileNotFound"
    ELSE "ok"

\* check_output_dir as it would be if it accepted an existing directory
check_output_dir_merge(f, d) == "ok"

\* check_output_dir(d) inside the batch
check_output_dir(f, d) == IF isdir(f, d) THEN "OutputExists" ELSE "ok"

\* run_external_pkg_command, up to the loop: check_output_dir, os.mkdir
EnsureOutputDir ==
    /\ pc = "mkdir"
    /\ LET p == pairs[pairIdx]
           n == Len(file_list(source_dict, heap, p.src))
       IN  IF check_output_dir(fs, p.out) # "ok"
           THEN Fail(check_output_dir(fs, p.out), p.out) /\ UNCHANGED <<fs, trace>>
           ELSE IF mkdir_result(fs, p.out) # "ok"
           THEN Fail(mkdir_result(fs, p.out), p.out) /\ UNCHANGED <<fs, trace>>
           ELSE /\ fs' = Append(fs, Dir(p.out))
                /\ trace' = Append(trace, [ev |-> "mkdir", src |-> p.src,
                                          out |-> p.out, rc |-> 0])
                /\ Advance(pairIdx, 0, n)
    /\ UNCHANGED <<objVars, dictVars, nEnv>>

\* what the external tool leaves behind: with exit status 0 the output file
\* (size 1), written into an existing directory; otherwise nothing
tool_effect(f, out, rc) ==
    IF rc # 0 \/ ~isdir(f, dirname(out)) \/ isdir(f, out) THEN f
    ELSE IF Exists(f, out)
         THEN [i \in 1..Len(f) |-> IF f[i].path = out THEN File(out, 1) ELSE f[i]]
         ELSE Append(f, File(out, 1))

\* subprocess.run as it would be with check=True
run_outcome_check(rc) == IF rc = 0 THEN "ok" ELSE "CalledProcessError"

\* the status subprocess.run reports to the loop: the exit status never
\* raises, whatever it is
run_outcome(rc) == "ok"

\* one iteration of the loop of run_external_pkg_command: subprocess.run on
\* the command with <OUTPUT> and <SOURCE> substituted; rc is the exit status
InvokeOne(rc) ==
    /\ pc = "run"
    /\ LET p == pairs[pairIdx]
           files == file_list(source_dict, heap, p.src)
           source_filepath == join(p.src, files[fileIdx])
           output_filepath == join(p.out, files[fileIdx])
       IN  /\ fs' = tool_effect(fs, output_filepath, rc)
           /\ trace' = Append(trace, [ev |-> "run", src |-> source_filepath,
                                     out |-> output_filepath, rc |-> rc])
           /\ IF run_outcome(rc) = "ok"
              THEN Advance(pairIdx, fileIdx, Len(files))
              ELSE Fail(run_outcome(rc), output_filepath)
    /\ UNCHANGED <<objVars, dictVars, nEnv>>

\* ------------------------------------------------------------- environment
\* another process creates a directory (os.mkdir) next to the program; when
\* no call is running, the state is no longer the one the last call left
EnvMkdir(p) ==
    /\ nEnv < MaxEnvMkdir
    /\ mkdir_result(fs, p) = "ok"
    /\ fs' = Append(fs, Dir(p))
    /\ nEnv' = nEnv + 1
    /\ lastOp' = IF pc = "idle" THEN NoOp ELSE lastOp
    /\ UNCHANGED <<objVars, dictVars, pc, loopVars, trace>>

Next ==
    \/ \E pkg \in BOOLEAN, src \in SourceArgs, out \in OutputArgs, rec \in BOOLEAN :
          Construct(pkg, src, out, rec)
    \/ GenerateSourceDict
    \/ GenerateOutputDict
    \/ \E source \in BOOLEAN : GenerateDictMetrics(source)
    \/ IterateDirectories
    \/ RunJob
    \/ EnsureOutputDir
    \/ \E rc \in ExitCodes : InvokeOne(rc)
    \/ \E p \in EnvDirs : EnvMkdir(p)

Init == InitWith(BatchTrees)
Spec == Init /\ [][Next]_vars

\* the directory mapper alone, on every initial tree
InitMap == InitWith(InitTrees)
NextMap ==
    \/ \E pkg \in BOOLEAN, src \in SourceArgs, out \in OutputArgs, rec \in BOOLEAN :
          Construct(pkg, src, out, rec)
    \/ GenerateSourceDict
    \/ GenerateOutputDict
    \/ \E source \in BOOLEAN : GenerateDictMetrics(source)
SpecMap == InitMap /\ [][NextMap]_vars

\* the batch with output roots that do not exist yet, one of them below the
\* source root
NestTrees == {Tree(FALSE, sa, 0, FALSE) : sa \in 0..1}
NestOutputArgs == {B, AO}
InitNest == InitWith(NestTrees)
NextNest ==
    \/ \E pkg \in BOOLEAN, src \in SourceArgs, out \in NestOutputArgs, rec \in BOOLEAN :
          Construct(pkg, src, out, rec)
    \/ GenerateSourceDict
    \/ GenerateOutputDict
    \/ \E source \in BOOLEAN : GenerateDictMetrics(source)
    \/ IterateDirectories
    \/ RunJob
    \/ EnsureOutputDir
    \/ \E rc \in ExitCodes : InvokeOne(rc)
SpecNest == InitNest /\ [][NextNest]_vars

\* Ctrl-C while a batch runs: nothing in the loop catches KeyboardInterrupt,
\* so the batch ends where it is and what it created stays
Interrupt ==
    /\ pc \in {"mkdir", "run"}
    /\ Fail("KeyboardInterrupt", <<>>)
    /\ UNCHANGED <<fs, trace, objVars, dictVars, nEnv>>

\* PDFCompressor(source_dir=src, output_dir=<the output root in use>,
\* recursive=rec) by a caller that already holds an object: on success the
\* new object replaces it, on failure the caller keeps the one it had
NewCompressor(pkg, src, rec) ==
    /\ pc = "idle" /\ constructed
    /\ lastOp' = [op |-> "__init__",
                  result |-> init_result(fs, pkg, src, output_dir),
                  arg |-> output_dir]
    /\ IF init_result(fs, pkg, src, output_dir) = "ok"
       THEN /\ source_dir' = src /\ recursive' = rec
            /\ UNCHANGED <<constructed, output_dir>>
            /\ has_source' = FALSE /\ source_dict' = <<>>
            /\ has_output' = FALSE /\ output_dict' = <<>>
            /\ heap' = <<<<>>, <<>>>>
       ELSE UNCHANGED <<objVars, dictVars>>
    /\ UNCHANGED <<fs, pc, loopVars, trace, nEnv>>

\* runs, interrupted runs and new objects against one output root
InitRerun == InitWith(NestTrees)
NextRerun ==
    \/ Next
    \/ Interrupt
    \/ \E pkg \in BOOLEAN, src \in SourceArgs, rec \in BOOLEAN :
          NewCompressor(pkg, src, rec)
SpecRerun == InitRerun /\ [][NextRerun]_vars

\* ================================================================== claims
\* helpers of the properties
BatchOps == {"iterate", "run_job"}
\* the part of source key k behind the source-root prefix
Rest(k) == SubSeq(k, Len(source_dir) + 1, Len(k))
\* the directories of f at or below root
ReachableDirs(f, root) ==
    {f[i].path : i \in {j \in 1..Len(f) :
        /\ f[j].kind = "d"
        /\ (f[j].path = root \/ StartsWith(f[j].path, root \o Slash))}}
FilesOf(e) == Item(e.val).files
AfterOutputDict == lastOp.op = "generate_output_dict"
AfterSourceDict == lastOp.op = "generate_source_dict"

\* C1: after generate_source_dict and generate_output_dict, output_dict has
\* as many keys as source_dict, its i-th key is the image of the i-th source
\* key, and distinct source keys have distinct images.
C1_OutputKeysBijective ==
    AfterOutputDict =>
        /\ Len(output_dict) = Len(source_dict)
        /\ \A i \in 1..Len(source_dict) :
              /\ i <= Len(output_dict)
              /\ output_dict[i].key = str_replace(source_dict[i].key, source_dir, output_dir)
        /\ \A i, j \in 1..Len(source_dict) :
              i # j => str_replace(source_dict[i].key, source_dir, output_dir)
                       # str_replace(source_dict[j].key, source_dir, output_dir)

\* C2: every output key is the output root followed by what follows the
\* source-root prefix in its source key, and nothing else is an output key.
C2_OnlyLeadingPrefixReplaced ==
    AfterOutputDict =>
        SeqToSet(keys(output_dict))
          = {output_dir \o Rest(source_dict[i].key) : i \in 1..Len(source_dict)}

\* C3: the keys of source_dict are exactly the source root in flat mode, and
\* exactly the directories at or below the source root in recursive mode, one
\* key each, directories without a matching file included.
C3_SourceKeySet ==
    AfterSourceDict =>
        IF recursive
        THEN /\ SeqToSet(keys(source_dict)) = ReachableDirs(fs, source_dir)
             /\ Len(source_dict) = Cardinality(ReachableDirs(fs, source_dir))
        ELSE keys(source_dict) = <<source_dir>>

\* C3 witness: a recursive scan of a tree with nested directories, one of
\* which has no matching file.
C3_Witness ==
    /\ AfterSourceDict /\ recursive
    /\ Len(source_dict) >= 4
    /\ \E i \in 1..Len(source_dict) : FilesOf(source_dict[i]) = <<>>
    /\ \E i \in 1..Len(source_dict) : FilesOf(source_dict[i]) # <<>>

\* the names of the entries of directory d that satisfy Keep
Listed(d, Keep(_)) ==
    {e.name : e \in {x \in SeqToSet(scandir(fs, d)) : Keep(x)}}
IsSubstringMatch(e) == e.kind = "f" /\ Contains(e.name, extension_type)
IsGlobMatch(e) == EndsWith(e.name, extension_type) /\ e.name[1] # "."

\* C9: in flat and in recursive mode alike, the files listed for a scanned
\* directory are exactly its files whose name contains the extension token.
C9_SubstringBothModes ==
    AfterSourceDict =>
        \A i \in 1..Len(source_dict) :
            SeqToSet(FilesOf(source_dict[i]))
              = Listed(source_dict[i].key, IsSubstringMatch)

\* C9 amended: in recursive mode the files listed for a visited directory are
\* its files whose name contains the extension token; in flat mode the names
\* listed for the source root are those of its entries, files and directories,
\* whose name ends with the token and does not begin with a dot.
C9_MatchPerMode ==
    AfterSourceDict =>
        \A i \in 1..Len(source_dict) :
            /\ SeqToSet(FilesOf(source_dict[i]))
                 = (IF recursive THEN Listed(source_dict[i].key, IsSubstringMatch)
                    ELSE Listed(source_dict[i].key, IsGlobMatch))
            /\ Cardinality(SeqToSet(FilesOf(source_dict[i])))
                 = Len(FilesOf(source_dict[i]))

\* C9 witness: a flat scan of a root that holds a file with the token inside
\* its name, a hidden file and a directory named like a match.
C9_Witness ==
    /\ AfterSourceDict /\ ~recursive
    /\ Exists(fs, OPdfOld) /\ Exists(fs, HPdf) /\ isdir(fs, DPdf)
    /\ SeqToSet(FilesOf(source_dict[1])) = {split_tail(RPdf), split_tail(DPdf)}

\* ------------------------------------------------------------- batch claims
BatchEnded == pc = "idle" /\ lastOp.op \in BatchOps
BatchDone == BatchEnded /\ lastOp.result = "ok"
Runs(tr) == SelectSeq(tr, LAMBDA e : e.ev = "run")
Mkdirs(tr) == SelectSeq(tr, LAMBDA e : e.ev = "mkdir")
\* the source paths of every matched file, in map order then filename order
AllMatched ==
    Flatten([i \in 1..Len(source_dict) |->
               [j \in 1..Len(FilesOf(source_dict[i])) |->
                  join(source_dict[i].key, FilesOf(source_dict[i])[j])]])

\* C4: when a batch has completed, the external tool was invoked on every
\* matched file of every source entry exactly once, in map order and filename
\* order, each time after the creation of the directory of its output path.
C4_EveryFileOnce ==
    BatchDone =>
        /\ [t \in 1..Len(Runs(trace)) |-> Runs(trace)[t].src] = AllMatched
        /\ Len(Mkdirs(trace)) = Len(source_dict)
        /\ \A t \in 1..Len(trace) :
              trace[t].ev = "run" =>
                 \E u \in 1..(t - 1) : /\ trace[u].ev = "mkdir"
                                       /\ trace[u].out = dirname(trace[t].out)

\* C5: when a recursive batch has completed, every directory it created and
\* every output path it invoked is the output root followed by the path of
\* the source directory or file relative to the source root.
C5_OutputMirrorsSource ==
    (BatchDone /\ recursive) =>
        /\ \A t \in 1..Len(trace) : trace[t].out = output_dir \o Rest(trace[t].src)
        /\ {trace[t].src : t \in {u \in 1..Len(trace) : trace[u].ev = "mkdir"}}
             = ReachableDirs(fs, source_dir)

\* the invocations the loop makes on the first n pairs of zs, and on the
\* first m files of pair n + 1
RunsOfPair(p, m) ==
    [j \in 1..m |-> [src |-> join(p.src, file_list(source_dict, heap, p.src)[j]),
                     out |-> join(p.out, file_list(source_dict, heap, p.src)[j])]]
NFiles(p) == Len(file_list(source_dict, heap, p.src))
ExpectedRuns(zs, n, m) ==
    Flatten([i \in 1..n |-> RunsOfPair(zs[i], NFiles(zs[i]))])
      \o (IF m > 0 THEN RunsOfPair(zs[n + 1], m) ELSE <<>>)
Zipped == zip(keys(source_dict), keys(output_dict))
SrcOut(tr) == [t \in 1..Len(tr) |-> [src |-> tr[t].src, out |-> tr[t].out]]
\* the pair whose output directory is d
PairOf(d) == CHOOSE i \in 1..Len(Zipped) : Zipped[i].out = d

C7_ExistingOutputDirIsFatal ==
    [][(pc = "mkdir" /\ isdir(fs, pairs[pairIdx].out) /\ nEnv' = nEnv) =>
          /\ pc' = "idle"
          /\ lastOp'.result = "OutputExists"
          /\ lastOp'.arg = pairs[pairIdx].out
          /\ fs' = fs
          /\ trace' = trace]_vars

\* C7 witness: a batch that created the output root and invoked the tool,
\* then ended with the output-exists error on a nested directory.
C7_Witness ==
    /\ BatchEnded /\ lastOp.result = "OutputExists"
    /\ lastOp.arg # output_dir
    /\ Runs(trace) # <<>>
    /\ \A t \in 1..Len(trace) :
          trace[t].out # lastOp.arg /\ dirname(trace[t].out) # lastOp.arg

\* C8: a construction whose output root path already exists fails with the
\* output-exists error (the tool being installed and the source directory
\* valid).
C8_ConstructFailsWhenOutputExists ==
    (/\ lastOp.op = "__init__"
     /\ lastOp.result \notin {"SystemError", "InvalidSource"}
     /\ Exists(fs, lastOp.arg))
       => lastOp.result = "OutputExists" /\ ~constructed

\* the sum of the sizes of the files named in S inside directory d
RECURSIVE SizeSum(_, _)
SizeSum(d, S) ==
    IF S = {} THEN 0
    ELSE LET x == CHOOSE y \in S : TRUE
         IN  st_size(fs, join(d, x)) + SizeSum(d, S \ {x})
MetricsDict == IF lastOp.arg = <<"source">> THEN source_dict ELSE output_dict

\* C10: after generate_dict_metrics has run on a map, every entry of that map
\* has count equal to the number of its filenames and d_bytes equal to the
\* sum of the sizes of those files in the directory of its key.
C10_MetricsInvariant ==
    (lastOp.op = "generate_dict_metrics" /\ lastOp.result = "ok") =>
        \A i \in 1..Len(MetricsDict) :
            LET e == MetricsDict[i]
            IN  /\ Item(e.val).count = Len(FilesOf(e))
                /\ Item(e.val).d_bytes = SizeSum(e.key, SeqToSet(FilesOf(e)))
                /\ (FilesOf(e) = <<>> => Item(e.val).d_bytes = 0)

\* C10 witness: metrics computed for the output map after a batch, with an
\* entry holding files and an entry holding none.
C10_Witness ==
    /\ lastOp.op = "generate_dict_metrics" /\ lastOp.result = "ok"
    /\ lastOp.arg = <<"output">>
    /\ \E i \in 1..Len(output_dict) : Item(output_dict[i].val).d_bytes > 0
    /\ \E i \in 1..Len(output_dict) : Item(output_dict[i].val).count = 0

\* ------------------------------------------------------- source tree frame
\* path p is root or lies below it
UnderTree(p, root) == p = root \/ StartsWith(p, root \o Slash)

\* C11: whatever operations ran, every directory the batch created and every
\* output path it passed to the external tool lies under the output tree and
\* outside the source tree, so nothing under the source root is created,
\* modified or removed.
C11_SourceTreeUntouched ==
    constructed =>
        \A t \in 1..Len(trace) :
            /\ UnderTree(trace[t].out, output_dir)
            /\ ~UnderTree(trace[t].out, source_dir)

\* ------------------------------------------------------------ missing tool
\* C12: a construction while the external tool is not installed fails with
\* the precondition error (SystemError) whatever the source and output
\* directories are, changes nothing on the filesystem and yields no object;
\* and as long as there is no object, no map is built and nothing is invoked.
C12_MissingToolFailsFirst ==
    [][/\ \A src \in SourceArgs, out \in OutputArgs, rec \in BOOLEAN :
            Construct(FALSE, src, out, rec) =>
                /\ lastOp'.result = "SystemError"
                /\ fs' = fs
                /\ ~constructed'
       /\ ~constructed' =>
            /\ ~has_source' /\ ~has_output'
            /\ pc' = "idle" /\ trace' = <<>>]_vars

\* a construction that failed on the missing tool although its output
\* directory argument already exists
C12_Witness ==
    /\ lastOp.op = "__init__" /\ lastOp.result = "SystemError"
    /\ ~constructed
    /\ isdir(fs, lastOp.arg)

\* ------------------------------------------------------ invocation failures
\* the invocations of a batch that the program has on record as failed: the
\* loop drops the object subprocess.run returns and the methods return
\* nothing, so only a status reported to the loop could be on record
recorded_failures(tr) == SelectSeq(Runs(tr), LAMBDA e : run_outcome(e.rc) # "ok")

\* the invocations of a batch whose exit status was not zero
FailedRuns(tr) == SelectSeq(Runs(tr), LAMBDA e : e.rc # 0)

\* C13: after a batch, the number of recorded invocation failures equals the
\* number of invocations that returned a non-zero exit status (one failing
\* invocation gives one recorded failure, none gives none).
C13_FailuresRecorded ==
    BatchEnded => Len(recorded_failures(trace)) = Len(FailedRuns(trace))

\* ------------------------------------------------------------------ reruns
\* the output root of the object exists as a directory
RootCreated == constructed /\ isdir(fs, output_dir)

\* C14: once the output root exists (left by a run that completed, failed
\* later or was interrupted), a run_job on the same object starts at the
\* output root and its first step fails with the output-exists error with
\* nothing invoked and nothing changed, and constructing a new PDFCompressor
\* for the same output root fails and leaves everything as it was, with the
\* output-exists error whenever the tool is installed and the source is a
\* directory; a batch that invokes the tool has created the output root
\* itself.
C14_RerunFailsOnExistingRoot ==
    [][/\ RootCreated =>
            /\ RunJob => /\ pc' = "mkdir" /\ pairIdx' = 1
                         /\ pairs'[1].out = output_dir
                         /\ trace' = <<>>
            /\ (lastOp.op = "run_job" /\ pairIdx = 1 /\ EnsureOutputDir) =>
                    /\ pc' = "idle"
                    /\ lastOp'.result = "OutputExists"
                    /\ lastOp'.arg = output_dir
                    /\ trace' = <<>> /\ fs' = fs
            /\ \A pkg \in BOOLEAN, src \in SourceArgs, rec \in BOOLEAN :
                    NewCompressor(pkg, src, rec) =>
                        /\ lastOp'.result # "ok"
                        /\ (pkg /\ isdir(fs, src)) => lastOp'.result = "OutputExists"
                        /\ fs' = fs /\ trace' = trace
                        /\ UNCHANGED <<objVars, dictVars>>
       /\ (lastOp'.op = "run_job" /\ Runs(trace') # <<>>) =>
            /\ trace'[1].ev = "mkdir"
            /\ trace'[1].out = output_dir']_vars

\* a run_job that failed on the output root before invoking anything, where
\* the root holds the output of an earlier run of the program that stopped
\* before it had created every output directory
C14_Witness ==
    /\ pc = "idle" /\ lastOp.op = "run_job"
    /\ lastOp.result = "OutputExists" /\ lastOp.arg = output_dir
    /\ trace = <<>> /\ nEnv = 0
    /\ \E i \in 1..Len(fs) : fs[i].kind = "f" /\ fs[i].dir = output_dir
    /\ \E i \in 1..Len(output_dict) : ~Exists(fs, output_dict[i].key)

\* ----------------------------------------------------- output map metrics
AfterOutputMetrics ==
    lastOp.op = "generate_dict_metrics" /\ lastOp.arg = <<"output">>

\* the sizes of the files of source entry e, read from the source directory
SourceSizes(e) ==
    [j \in 1..Len(FilesOf(e)) |-> st_size(fs, join(e.key, FilesOf(e)[j]))]

\* C15: every output-map entry carries the filenames and metrics of a
\* source-map entry, and generate_dict_metrics(source=False) performs no file
\* stat (so it cannot fail on a missing file) and leaves the count and byte
\* sizes recorded for every source-map entry equal to the sizes of the source
\* files.
C15_OutputMetricsKeepSourceSizes ==
    /\ AfterOutputDict =>
          \A i \in 1..Len(output_dict) :
              \E k \in 1..Len(source_dict) :
                  Item(output_dict[i].val) = Item(source_dict[k].val)
    /\ AfterOutputMetrics =>
          /\ lastOp.result = "ok"
          /\ \A k \in 1..Len(source_dict) :
                LET e == source_dict[k]
                IN  Item(e.val).d_bytes # -1 =>
                      /\ Item(e.val).count = Len(FilesOf(e))
                      /\ Item(e.val).f_bytes = SourceSizes(e)
                      /\ Item(e.val).d_bytes = SumSeq(SourceSizes(e))
====
